---- MODULE Spec2Model ----
(***************************************************************************)
(* A model of the grocery-list document pipeline:                          *)
(*   - services/document_parser.py  (DocumentParser: text extraction)      *)
(*   - services/item_extractor.py   (ItemExtractor: line -> item parsing)  *)
(*   - api/routers/documents.py     (parse_document HTTP handler)          *)
(*                                                                         *)
(* A Python str is modelled as a sequence of one-character strings; the    *)
(* bullet glyph U+2022 is the atom "bullet".  Python's None is the empty   *)
(* optional <<>> and a present value v is <<v>>.                           *)
(***************************************************************************)
EXTENDS Integers, Sequences, FiniteSets, TLC

VARIABLES
  \* ---- ItemExtractor calls
  input,      \* the str argument of the current ItemExtractor call
  entry,      \* which entry point ran: "none", "extract_items", "extract_from_voice", "_detect_category"
  items,      \* the list the entry point returned
  prev,       \* the list returned by the preceding call (re-parse experiments)
  ipc,        \* "ready" | "done" | "reparsed" | "reparsed_name"
  \* ---- DocumentParser.parse_pdf / parse_image and the parse_document handler
  req,        \* the upload and the behaviour of the external libraries on it
  hpc,        \* position in parse_document
  ppc,        \* position in parse_pdf
  text,       \* parse_pdf's local list `text`
  page,       \* index of the page the running engine is at
  calls,      \* how many times each PDF engine has been opened in this call
  primaryRaised,  \* whether the pdfplumber block raised in this call
  primaryCollected, \* number of page texts the pdfplumber block appended
  parsed,     \* outcome of the document_parser call: [kind, value]
  resp,       \* the HTTP response of parse_document
  tmpFile,    \* the temporary file on disk: "none" | "exists" | "deleted"
  tmpPath,    \* the handler's local tmp_path: "None" | "set"
  docOpen,    \* whether the fitz document opened by parse_pdf is still open
  extracted,  \* whether item_extractor.extract_items was invoked by the handler
  \* ---- DocumentParser.parse_text on a file's bytes
  content,    \* the bytes of the file parse_text reads
  \* ---- concurrent calls on the shared module-level instances
  cc,         \* per call: [kind, arg, pc, i, out]
  heap,       \* the list each running call builds (parse_pdf's text, extract_items' items)
  taxonomy    \* the class attribute ItemExtractor.CATEGORIES

ivars == <<input, entry, items, prev, ipc>>
dvars == <<req, hpc, ppc, text, page, calls, primaryRaised, primaryCollected,
           parsed, resp, tmpFile, tmpPath, docOpen, extracted>>
xvars == <<content, cc, heap, taxonomy>>
vars == <<input, entry, items, prev, ipc, req, hpc, ppc, text, page, calls,
          primaryRaised, primaryCollected, parsed, resp, tmpFile, tmpPath,
          docOpen, extracted, content, cc, heap, taxonomy>>

(***************************************************************************)
(* Characters and the str methods the code uses                            *)
(***************************************************************************)
Min(S) == CHOOSE x \in S : \A y \in S : x <= y
Max(S) == CHOOSE x \in S : \A y \in S : x >= y

\* the characters \s and str.strip() treat as white space
WS == {" ", "\t", "\n", "\r"}
Digits == {"0", "1", "2", "3", "4", "5", "6", "7", "8", "9"}
UpperChars == <<"A","B","C","D","E","F","G","H","I","J","K","L","M",
                "N","O","P","Q","R","S","T","U","V","W","X","Y","Z">>
LowerChars == <<"a","b","c","d","e","f","g","h","i","j","k","l","m",
                "n","o","p","q","r","s","t","u","v","w","x","y","z">>
IsUpperChar(c) == \E i \in 1..Len(UpperChars) : UpperChars[i] = c
IsLowerChar(c) == \E i \in 1..Len(LowerChars) : LowerChars[i] = c
ToLower(c) ==
  IF IsUpperChar(c)
  THEN LowerChars[CHOOSE i \in 1..Len(UpperChars) : UpperChars[i] = c]
  ELSE c

\* s[n+1:]
Drop(s, n) == SubSeq(s, n + 1, Len(s))
\* str.lower()
Lower(s) == [i \in 1..Len(s) |-> ToLower(s[i])]
\* str.isupper(): at least one cased character and no lower-case one
IsUpper(s) ==
  /\ \E i \in 1..Len(s) : IsUpperChar(s[i])
  /\ \A i \in 1..Len(s) : ~IsLowerChar(s[i])
\* str.strip()
Strip(s) ==
  LET idx == {i \in 1..Len(s) : s[i] \notin WS}
  IN IF idx = {} THEN <<>> ELSE SubSeq(s, Min(idx), Max(idx))
\* what is left of s after a leading \s*
SkipWs(s) ==
  LET idx == {i \in 1..Len(s) : s[i] \notin WS}
  IN IF idx = {} THEN <<>> ELSE SubSeq(s, Min(idx), Len(s))
\* length of the match of a leading \d* (greedy)
DigitRun(s) ==
  LET nd == {i \in 1..Len(s) : s[i] \notin Digits}
  IN IF nd = {} THEN Len(s) ELSE Min(nd) - 1
\* `sub in s`
Contains(sub, s) ==
  \E i \in 0..(Len(s) - Len(sub)) : SubSeq(s, i + 1, i + Len(sub)) = sub
\* s.startswith(p)
StartsWith(s, p) == Len(s) >= Len(p) /\ SubSeq(s, 1, Len(p)) = p
\* len(s.split()): the number of white-space separated words
WordCount(s) ==
  Cardinality({i \in 1..Len(s) : s[i] \notin WS /\ (i = 1 \/ s[i - 1] \in WS)})
\* s.split(sep) / re.split('[...]', s) for single-character separators
RECURSIVE Split(_, _)
Split(s, seps) ==
  LET idx == {i \in 1..Len(s) : s[i] \in seps}
  IN IF idx = {} THEN <<s>>
     ELSE <<SubSeq(s, 1, Min(idx) - 1)>> \o Split(Drop(s, Min(idx)), seps)
\* sep.join(parts)
RECURSIVE Join(_, _)
Join(parts, sep) ==
  IF Len(parts) = 0 THEN <<>>
  ELSE IF Len(parts) = 1 THEN parts[1]
  ELSE parts[1] \o sep \o Join(Tail(parts), sep)
\* s.replace(old, new): leftmost non-overlapping occurrences, left to right
RECURSIVE Replace(_, _, _)
Replace(s, old, new) ==
  LET occ == {i \in 1..(Len(s) - Len(old) + 1) : SubSeq(s, i, i + Len(old) - 1) = old}
  IN IF occ = {} THEN s
     ELSE SubSeq(s, 1, Min(occ) - 1) \o new
            \o Replace(Drop(s, Min(occ) + Len(old) - 1), old, new)

(***************************************************************************)
(* ItemExtractor                                                           *)
(***************************************************************************)
None == <<>>
Some(v) == <<v>>

CATEGORIES ==
  <<
     [name |-> "produce", keywords |-> <<
        <<"a","p","p","l","e">>,
        <<"b","a","n","a","n","a">>,
        <<"o","r","a","n","g","e">>,
        <<"l","e","t","t","u","c","e">>,
        <<"t","o","m","a","t","o">>,
        <<"p","o","t","a","t","o">>,
        <<"o","n","i","o","n">>,
        <<"c","a","r","r","o","t">>,
        <<"b","r","o","c","c","o","l","i">>,
        <<"s","p","i","n","a","c","h">> >>],
     [name |-> "dairy", keywords |-> <<
        <<"m","i","l","k">>,
        <<"c","h","e","e","s","e">>,
        <<"y","o","g","u","r","t">>,
        <<"b","u","t","t","e","r">>,
        <<"c","r","e","a","m">>,
        <<"e","g","g","s">> >>],
     [name |-> "meat", keywords |-> <<
        <<"c","h","i","c","k","e","n">>,
        <<"b","e","e","f">>,
        <<"p","o","r","k">>,
        <<"f","i","s","h">>,
        <<"t","u","r","k","e","y">>,
        <<"l","a","m","b">>,
        <<"b","a","c","o","n">>,
        <<"s","a","u","s","a","g","e">> >>],
     [name |-> "bakery", keywords |-> <<
        <<"b","r","e","a","d">>,
        <<"b","a","g","e","l">>,
        <<"m","u","f","f","i","n">>,
        <<"c","r","o","i","s","s","a","n","t">>,
        <<"b","u","n","s">>,
        <<"r","o","l","l","s">> >>],
     [name |-> "pantry", keywords |-> <<
        <<"r","i","c","e">>,
        <<"p","a","s","t","a">>,
        <<"f","l","o","u","r">>,
        <<"s","u","g","a","r">>,
        <<"s","a","l","t">>,
        <<"p","e","p","p","e","r">>,
        <<"o","i","l">>,
        <<"s","a","u","c","e">>,
        <<"c","e","r","e","a","l">> >>],
     [name |-> "beverages", keywords |-> <<
        <<"c","o","f","f","e","e">>,
        <<"t","e","a">>,
        <<"j","u","i","c","e">>,
        <<"s","o","d","a">>,
        <<"w","a","t","e","r">>,
        <<"b","e","e","r">>,
        <<"w","i","n","e">> >>],
     [name |-> "snacks", keywords |-> <<
        <<"c","h","i","p","s">>,
        <<"c","r","a","c","k","e","r","s">>,
        <<"c","o","o","k","i","e","s">>,
        <<"c","a","n","d","y">>,
        <<"n","u","t","s">>,
        <<"p","o","p","c","o","r","n">> >>],
     [name |-> "frozen", keywords |-> <<
        <<"i","c","e"," ","c","r","e","a","m">>,
        <<"f","r","o","z","e","n"," ","p","i","z","z","a">>,
        <<"f","r","o","z","e","n"," ","v","e","g","e","t","a","b","l","e","s">>,
        <<"f","r","o","z","e","n"," ","f","r","u","i","t">> >>],
     [name |-> "cleaning", keywords |-> <<
        <<"s","o","a","p">>,
        <<"d","e","t","e","r","g","e","n","t">>,
        <<"b","l","e","a","c","h">>,
        <<"s","p","o","n","g","e">>,
        <<"p","a","p","e","r"," ","t","o","w","e","l","s">>,
        <<"t","o","i","l","e","t"," ","p","a","p","e","r">> >>]
  >>

\* re.sub(r'^\d+[\.\)]\s*', '', line)
SubNumeric(line) ==
  LET n == DigitRun(line)
  IN IF n >= 1 /\ Len(line) > n /\ line[n + 1] \in {".", ")"}
     THEN SkipWs(Drop(line, n + 1))
     ELSE line
\* re.sub(r'^[-*•]\s*', '', line)
SubBullet(line) ==
  IF Len(line) >= 1 /\ line[1] \in {"-", "*", "bullet"}
  THEN SkipWs(Drop(line, 1))
  ELSE line
\* re.sub(r'^\[\s*\]\s*', '', line) and re.sub(r'^\(\s*\)\s*', '', line)
SubBox(line, open, close) ==
  IF Len(line) >= 1 /\ line[1] = open
  THEN LET r == SkipWs(Drop(line, 1))
       IN IF Len(r) >= 1 /\ r[1] = close THEN SkipWs(Drop(r, 1)) ELSE line
  ELSE line
\* (mutant) the loop stops at the first pattern that matched
StripMarkersFirstOnly(line) ==
  IF SubNumeric(line) # line THEN SubNumeric(line)
  ELSE IF SubBullet(line) # line THEN SubBullet(line)
  ELSE IF SubBox(line, "[", "]") # line THEN SubBox(line, "[", "]")
  ELSE SubBox(line, "(", ")")
\* the loop `for pattern in patterns: line = re.sub(pattern, '', line)`
StripMarkers(line) ==
  SubBox(SubBox(SubBullet(SubNumeric(line)), "[", "]"), "(", ")")

\* the alternation (lb|lbs|oz|kg|g|bags?|cans?|bottles?|boxes?|packs?) in the
\* order a backtracking matcher tries it: alternatives left to right, and
\* for `xs?` the form with the optional letter first.
UnitAlternatives ==
  << <<"l","b">>, <<"l","b","s">>, <<"o","z">>, <<"k","g">>, <<"g">>,
     <<"b","a","g","s">>, <<"b","a","g">>,
     <<"c","a","n","s">>, <<"c","a","n">>,
     <<"b","o","t","t","l","e","s">>, <<"b","o","t","t","l","e">>,
     <<"b","o","x","e","s">>, <<"b","o","x","e">>,
     <<"p","a","c","k","s">>, <<"p","a","c","k">> >>
\* length matched by the optional unit group at the start of r (IGNORECASE);
\* the rest of the pattern (\s*) matches anything, so the first alternative
\* that matches is the one kept.
UnitLen(r) ==
  LET m == {i \in 1..Len(UnitAlternatives) : StartsWith(Lower(r), UnitAlternatives[i])}
  IN IF m = {} THEN 0 ELSE Len(UnitAlternatives[Min(m)])
\* re.sub(r'^\d+\s*(lb|...)?\s*', '', line, flags=re.IGNORECASE)
StripQuantity(line) ==
  LET n == DigitRun(line)
  IN IF n = 0 THEN line
     ELSE LET r == SkipWs(Drop(line, n))
          IN SkipWs(Drop(r, UnitLen(r)))

MinNameLen == 2
MaxNameLen == 100
HeaderLen == 15
SkipMaxWords == 3
skip_keywords ==
  << <<"g","r","o","c","e","r","y">>, <<"l","i","s","t">>,
     <<"s","h","o","p","p","i","n","g">>, <<"s","t","o","r","e">>,
     <<"i","t","e","m","s">>, <<"t","o","t","a","l">>, <<"d","a","t","e">> >>

\* ItemExtractor._extract_item_text
ExtractItemText(line0) ==
  LET line == Strip(StripQuantity(StripMarkers(line0)))
  IN IF Len(line) < MinNameLen \/ Len(line) > MaxNameLen THEN None
     ELSE IF IsUpper(line) /\ Len(line) > HeaderLen THEN None
     ELSE IF /\ \E k \in 1..Len(skip_keywords) : Contains(skip_keywords[k], Lower(line))
             /\ WordCount(line) <= SkipMaxWords
          THEN None
     ELSE Some(line)

\* ItemExtractor._detect_category: the first category, then the first keyword
RECURSIVE DetectFrom(_, _, _)
DetectFrom(item_lower, c, k) ==
  IF c > Len(CATEGORIES) THEN "None"
  ELSE IF k > Len(CATEGORIES[c].keywords) THEN DetectFrom(item_lower, c + 1, 1)
  ELSE IF Contains(CATEGORIES[c].keywords[k], item_lower) THEN CATEGORIES[c].name
  ELSE DetectFrom(item_lower, c, k + 1)
\* (mutant) the name is matched without lower-casing it
DetectCategoryNoLower(item_text) == DetectFrom(item_text, 1, 1)
DetectCategory(item_text) == DetectFrom(Lower(item_text), 1, 1)

\* (mutant) new items are inserted at the front of the list
RECURSIVE ExtractLoopPrepend(_, _, _)
ExtractLoopPrepend(lines, i, acc) ==
  IF i > Len(lines) THEN acc
  ELSE LET line == Strip(lines[i])
       IN IF line = <<>> THEN ExtractLoopPrepend(lines, i + 1, acc)
          ELSE LET item_text == ExtractItemText(line)
               IN IF item_text # None /\ item_text[1] # <<>>
                  THEN ExtractLoopPrepend(lines, i + 1,
                         <<[name |-> item_text[1],
                            category |-> DetectCategory(item_text[1]),
                            original |-> line]>> \o acc)
                  ELSE ExtractLoopPrepend(lines, i + 1, acc)
\* (mutant) `original` holds the cleaned name instead of the source line
RECURSIVE ExtractLoopCleanOriginal(_, _, _)
ExtractLoopCleanOriginal(lines, i, acc) ==
  IF i > Len(lines) THEN acc
  ELSE LET line == Strip(lines[i])
       IN IF line = <<>> THEN ExtractLoopCleanOriginal(lines, i + 1, acc)
          ELSE LET item_text == ExtractItemText(line)
               IN IF item_text # None /\ item_text[1] # <<>>
                  THEN ExtractLoopCleanOriginal(lines, i + 1,
                         Append(acc, [name |-> item_text[1],
                                      category |-> DetectCategory(item_text[1]),
                                      original |-> item_text[1]]))
                  ELSE ExtractLoopCleanOriginal(lines, i + 1, acc)
\* the `for line in lines` loop of extract_items
RECURSIVE ExtractLoop(_, _, _)
ExtractLoop(lines, i, acc) ==
  IF i > Len(lines) THEN acc
  ELSE LET line == Strip(lines[i])
       IN IF line = <<>> THEN ExtractLoop(lines, i + 1, acc)
          ELSE LET item_text == ExtractItemText(line)
               IN IF item_text # None /\ item_text[1] # <<>>
                  THEN ExtractLoop(lines, i + 1,
                         Append(acc, [name |-> item_text[1],
                                      category |-> DetectCategory(item_text[1]),
                                      original |-> line]))
                  ELSE ExtractLoop(lines, i + 1, acc)
\* ItemExtractor.extract_items
ExtractItems(t) == ExtractLoop(Split(t, {"\n"}), 1, <<>>)

\* (mutant) voice tokens go through _extract_item_text like document lines
RECURSIVE VoiceLoopCleaning(_, _, _)
VoiceLoopCleaning(items_list, i, acc) ==
  IF i > Len(items_list) THEN acc
  ELSE LET item_text == ExtractItemText(Strip(items_list[i]))
       IN IF item_text # None
          THEN VoiceLoopCleaning(items_list, i + 1,
                 Append(acc, [name |-> item_text[1],
                              category |-> DetectCategory(item_text[1]),
                              original |-> item_text[1]]))
          ELSE VoiceLoopCleaning(items_list, i + 1, acc)
\* the `for item_text in items_list` loop of extract_from_voice
RECURSIVE VoiceLoop(_, _, _)
VoiceLoop(items_list, i, acc) ==
  IF i > Len(items_list) THEN acc
  ELSE LET item_text == Strip(items_list[i])
       IN IF item_text # <<>> /\ Len(item_text) > 1
          THEN VoiceLoop(items_list, i + 1,
                 Append(acc, [name |-> item_text,
                              category |-> DetectCategory(item_text),
                              original |-> item_text]))
          ELSE VoiceLoop(items_list, i + 1, acc)
\* ItemExtractor.extract_from_voice
ExtractFromVoice(t) ==
  VoiceLoop(Split(Replace(t, <<" ","a","n","d"," ">>, <<","," ">>), {",", ";"}), 1, <<>>)

(***************************************************************************)
(* Calls of the ItemExtractor entry points on bounded inputs               *)
(***************************************************************************)
MaxTokens == 3
Tokens ==
  { <<"1","."," ">>,
    <<"-"," ">>,
    <<"["," ","]"," ">>,
    <<"2"," ">>,
    <<"l","b","s"," ">>,
    <<"A","p","p","l","e","s">>,
    <<"\n">>,
    <<" ","a","n","d"," ">>,
    <<","," ">> }
RECURSIVE TokenStrings(_)
TokenStrings(n) ==
  IF n = 0 THEN {<<>>}
  ELSE LET p == TokenStrings(n - 1) IN p \cup {s \o t : s \in p, t \in Tokens}

ScenarioText == <<"1","."," ","A","p","p","l","e","s","\n","-"," ","2"," ","l","b","s"," ","C","h","i","c","k","e","n","\n","T","O","T","A","L"," ","I","T","E","M","S"," ","P","U","R","C","H","A","S","E","D"," ","T","O","D","A","Y","\n","x">>
VoiceScenario == <<"a","p","p","l","e","s",","," ","b","a","n","a","n","a","s",","," ","m","i","l","k"," ","a","n","d"," ","c","h","e","e","s","e">>
QtyChicken == <<"2"," ","l","b","s"," ","c","h","i","c","k","e","n">>
GroceryList == <<"G","r","o","c","e","r","y"," ","L","i","s","t">>
FrozenPizza == <<"f","r","o","z","e","n"," ","p","i","z","z","a">>
ChickenRice == <<"C","h","i","c","k","e","n"," ","R","i","c","e">>
IceCreamUpper == <<"I","C","E"," ","C","R","E","A","M">>
PineappleJuice == <<"P","i","n","e","a","p","p","l","e"," ","J","u","i","c","e">>
OverlapAnd == <<"m","i","l","k"," ","a","n","d"," ","a","n","d"," ","c","h","e","e","s","e">>
CrLfText == <<"A","p","p","l","e","s","\r","\n","a","b","\r">>
Zz == <<"z","z">>
w_Apples == <<"A","p","p","l","e","s">>
w_Chicken == <<"C","h","i","c","k","e","n">>
w_apples == <<"a","p","p","l","e","s">>
w_bananas == <<"b","a","n","a","n","a","s">>
w_milk == <<"m","i","l","k">>
w_cheese == <<"c","h","e","e","s","e">>
\* n copies of the letter a
Letters(n) == [i \in 1..n |-> "a"]

FixedInputs ==
  { ScenarioText, VoiceScenario, QtyChicken, GroceryList, FrozenPizza,
    ChickenRice, IceCreamUpper, PineappleJuice, OverlapAnd, CrLfText, Zz,
    <<"x">>, <<"-"," ","x">>, <<"L","i","s","t">>,
    <<"["," ","]"," ","("," ",")"," ","A","p","p","l","e","s">>,
    <<"-"," ","("," ",")"," ","A","p","p","l","e","s">>,
    <<"("," ",")"," ","("," ",")"," ","A","p","p","l","e","s">>,
    Letters(MaxNameLen), Letters(MaxNameLen + 1),
    <<"2", " ">> \o Letters(MaxNameLen),
    <<" ">> \o Letters(MaxNameLen + 1) \o <<";">> \o Letters(MinNameLen) }
\* the unit vocabulary as documented: lb, lbs, oz, kg, g, bag(s), can(s),
\* bottle(s), box(es), pack(s)
UnitWords ==
  { <<"l","b">>,
    <<"l","b","s">>,
    <<"o","z">>,
    <<"k","g">>,
    <<"g">>,
    <<"b","a","g">>,
    <<"b","a","g","s">>,
    <<"c","a","n">>,
    <<"c","a","n","s">>,
    <<"b","o","t","t","l","e">>,
    <<"b","o","t","t","l","e","s">>,
    <<"b","o","x">>,
    <<"b","o","x","e","s">>,
    <<"p","a","c","k">>,
    <<"p","a","c","k","s">> }
\* words that are no unit but begin with the letters of one
NonUnitWords ==
  { <<"g","r","a","p","e","s">>,
    <<"c","a","n","d","y">>,
    <<"b","o","x","e","r","s">>,
    <<"o","z","o","n","e">> }
\* str.upper()
Upper(s) ==
  [i \in 1..Len(s) |->
     IF IsLowerChar(s[i])
     THEN UpperChars[CHOOSE j \in 1..Len(LowerChars) : LowerChars[j] = s[i]]
     ELSE s[i]]
\* the line "<integer> <unit> <rest>"
QtyLine(u, rest) == <<"3", " ">> \o u \o <<" ">> \o rest
UnitInputs ==
  {QtyLine(u, w_Chicken) : u \in UnitWords}
    \cup {QtyLine(Upper(u), w_Chicken) : u \in UnitWords}
    \cup {<<"3", " ">> \o w : w \in NonUnitWords}
\* every keyword of the taxonomy, as a name
KeywordInputs ==
  UNION {{CATEGORIES[c].keywords[k] : k \in 1..Len(CATEGORIES[c].keywords)} :
           c \in 1..Len(CATEGORIES)}
Inputs == TokenStrings(MaxTokens) \cup FixedInputs \cup UnitInputs \cup KeywordInputs

\* no file is being read and no concurrent calls are running
ExtraIdle ==
  /\ content = <<>>
  /\ cc = <<>>
  /\ heap = <<>>
  /\ taxonomy = CATEGORIES

\* no request is being handled
DocIdle ==
  /\ req = [ctype |-> "none"]
  /\ hpc = "idle"
  /\ ppc = "idle"
  /\ text = <<>>
  /\ page = 0
  /\ calls = [primary |-> 0, secondary |-> 0]
  /\ primaryRaised = FALSE
  /\ primaryCollected = 0
  /\ parsed = [kind |-> "none"]
  /\ resp = [status |-> 0]
  /\ tmpFile = "none"
  /\ tmpPath = "None"
  /\ docOpen = FALSE
  /\ extracted = FALSE

InitItems ==
  /\ input \in Inputs
  /\ entry = "none"
  /\ items = <<>>
  /\ prev = <<>>
  /\ ipc = "ready"
  /\ DocIdle
  /\ ExtraIdle

\* items = item_extractor.extract_items(input)
CallExtractItems ==
  /\ ipc = "ready"
  /\ entry' = "extract_items"
  /\ items' = ExtractItems(input)
  /\ ipc' = "done"
  /\ UNCHANGED <<input, prev>>
  /\ UNCHANGED dvars
  /\ UNCHANGED xvars

\* items = item_extractor.extract_from_voice(input)
CallExtractFromVoice ==
  /\ ipc = "ready"
  /\ entry' = "extract_from_voice"
  /\ items' = ExtractFromVoice(input)
  /\ ipc' = "done"
  /\ UNCHANGED <<input, prev>>
  /\ UNCHANGED dvars
  /\ UNCHANGED xvars

\* category = item_extractor._detect_category(input); the result is kept as
\* the category of a one-item list
CallDetectCategory ==
  /\ ipc = "ready"
  /\ entry' = "_detect_category"
  /\ items' = <<[name |-> input, category |-> DetectCategory(input), original |-> input]>>
  /\ ipc' = "done"
  /\ UNCHANGED <<input, prev>>
  /\ UNCHANGED dvars
  /\ UNCHANGED xvars

Originals(its) == [k \in 1..Len(its) |-> its[k].original]
Names(its) == [k \in 1..Len(its) |-> its[k].name]
NameSet(its) == {its[k].name : k \in 1..Len(its)}

\* extract_items('\n'.join(i['original'] for i in items))
ReparseOriginals ==
  /\ ipc = "done"
  /\ entry = "extract_items"
  /\ prev' = items
  /\ input' = Join(Originals(items), <<"\n">>)
  /\ items' = ExtractItems(input')
  /\ ipc' = "reparsed"
  /\ UNCHANGED entry
  /\ UNCHANGED dvars
  /\ UNCHANGED xvars

\* extract_items(items[k]['name'])
ReparseName(k) ==
  /\ ipc = "done"
  /\ entry = "extract_items"
  /\ prev' = <<items[k]>>
  /\ input' = items[k].name
  /\ items' = ExtractItems(input')
  /\ ipc' = "reparsed_name"
  /\ UNCHANGED entry
  /\ UNCHANGED dvars
  /\ UNCHANGED xvars

NextItems ==
  \/ CallExtractItems
  \/ CallExtractFromVoice
  \/ CallDetectCategory
  \/ ReparseOriginals
  \/ \E k \in 1..Len(items) : ReparseName(k)

SpecItems == InitItems /\ [][NextItems]_vars

(***************************************************************************)
(* Claims about ItemExtractor (checked under SpecItems)                    *)
(***************************************************************************)
ItemsDone == ipc = "done" /\ entry = "extract_items"
VoiceDone == ipc = "done" /\ entry = "extract_from_voice"
TagDone == ipc = "done" /\ entry = "_detect_category"
InputLines == Split(input, {"\n"})
IsLetter(c) == IsUpperChar(c) \/ IsLowerChar(c)

\* C4: extract_items on the four-line scenario text returns exactly the two
\* items Apples/produce and Chicken/meat, in that order.
C4_ScenarioItems ==
  (ItemsDone /\ input = ScenarioText) =>
     /\ Len(items) = 2
     /\ items[1].name = w_Apples /\ items[1].category = "produce"
     /\ items[2].name = w_Chicken /\ items[2].category = "meat"

\* the leading list markers, in the priority order of `patterns`
MarkerText ==
  << <<"1", ".", " ">>, <<"-", " ">>, <<"[", " ", "]", " ">>, <<"(", " ", ")", " ">> >>
\* the one-line input is marker i, then marker j, then a body that starts
\* with a letter (so that no further marker or quantity can match the body)
TwoMarkerLine(i, j) ==
  /\ StartsWith(input, MarkerText[i] \o MarkerText[j])
  /\ Len(input) > Len(MarkerText[i]) + Len(MarkerText[j])
  /\ IsLetter(input[Len(MarkerText[i]) + Len(MarkerText[j]) + 1])
  /\ Len(InputLines) = 1
BodyAfter(i, j) == Strip(Drop(input, Len(MarkerText[i]) + Len(MarkerText[j])))

\* C5 (as stated): at most one marker is stripped, so of two leading markers
\* of different kinds (numeric then bullet, bullet then checkbox) the second
\* one stays in the name.
C5_AtMostOneMarker ==
  ItemsDone =>
    \A i, j \in 1..Len(MarkerText) :
      (i < j /\ TwoMarkerLine(i, j) /\ items # <<>>) =>
         items[1].name = Strip(MarkerText[j]) \o <<" ">> \o BodyAfter(i, j)

\* C5 (amended): every marker pattern is applied once, in priority order:
\* two leading markers of different kinds in priority order are both
\* stripped, and of two markers of the same glyph kind only the first is.
C5_OneMarkerPerKind ==
  ItemsDone =>
    \A i, j \in 1..Len(MarkerText) :
      (TwoMarkerLine(i, j) /\ items # <<>>) =>
         /\ i < j => items[1].name = BodyAfter(i, j)
         /\ (i = j /\ i > 1) =>
              items[1].name = Strip(MarkerText[j]) \o <<" ">> \o BodyAfter(i, j)
C5_Witness ==
  /\ ItemsDone
  /\ TwoMarkerLine(1, 2)
  /\ Names(items) = <<w_Apples>>

\* C6: every item of either entry point has a trimmed name of 2..100
\* characters.
C6_NameBounds ==
  (ipc = "done" /\ entry \in {"extract_items", "extract_from_voice"}) =>
    \A k \in 1..Len(items) :
      /\ Strip(items[k].name) = items[k].name
      /\ Len(items[k].name) >= MinNameLen
      /\ Len(items[k].name) <= MaxNameLen

\* the indices of the input lines that yield an item
Surviving ==
  {i \in 1..Len(InputLines) :
     Strip(InputLines[i]) # <<>> /\ ExtractItemText(Strip(InputLines[i])) # None}
NonBlank == {i \in 1..Len(InputLines) : Strip(InputLines[i]) # <<>>}
Kth(S, k) == CHOOSE i \in S : Cardinality({j \in S : j < i}) = k - 1

\* C7: extract_items returns a sequence for every input: it has one item per
\* surviving line, in source line order (so it is empty when no line
\* survives and never longer than the number of non-blank lines).
C7_TotalOrdered ==
  ItemsDone =>
    /\ Len(items) = Cardinality(Surviving)
    /\ Len(items) <= Cardinality(NonBlank)
    /\ (Surviving = {} => items = <<>>)
    /\ \A k \in 1..Len(items) :
         items[k].original = Strip(InputLines[Kth(Surviving, k)])
C7_Witness ==
  /\ ItemsDone
  /\ Len(items) = 2
  /\ Cardinality(NonBlank) > 2
  /\ items[1].original # items[2].original

\* C8 (as stated): re-parsing the joined originals gives the same set of
\* names, and re-parsing an emitted name alone gives that same name.
C8_IdempotentAndFixedPoint ==
  /\ ipc = "reparsed" => NameSet(items) = NameSet(prev)
  /\ ipc = "reparsed_name" => Names(items) = <<prev[1].name>>

\* C8 (amended): re-parsing the joined originals gives the same set of names.
C8_IdempotentOnOriginals ==
  ipc = "reparsed" => NameSet(items) = NameSet(prev)
C8_Witness ==
  /\ ipc = "reparsed"
  /\ Len(prev) = 2
  /\ prev[1].name # prev[1].original

\* the categories, by index, with a keyword that is a substring of lower(s)
Hits(s) ==
  {c \in 1..Len(CATEGORIES) :
     \E k \in 1..Len(CATEGORIES[c].keywords) :
        Contains(CATEGORIES[c].keywords[k], Lower(s))}

\* C9: _detect_category returns the first category in declaration order with
\* a keyword that is a substring of the lower-cased name, none when there is
\* no such category; "frozen pizza" is tagged frozen.
C9_FirstCategory ==
  /\ [c \in 1..Len(CATEGORIES) |-> CATEGORIES[c].name] =
       <<"produce", "dairy", "meat", "bakery", "pantry", "beverages",
         "snacks", "frozen", "cleaning">>
  /\ TagDone =>
       /\ items[1].category =
            IF Hits(input) = {} THEN "None" ELSE CATEGORIES[Min(Hits(input))].name
       /\ input = FrozenPizza => items[1].category = "frozen"
C9_Witness ==
  /\ TagDone
  /\ Cardinality(Hits(input)) >= 2
  /\ \E i \in 1..Len(input) : IsUpperChar(input[i])
  /\ items[1].category = "meat"

HasSeparator(s) ==
  \/ \E i \in 1..Len(s) : s[i] \in {",", ";"}
  \/ Contains(<<" ", "a", "n", "d", " ">>, s)

\* C10: extract_from_voice splits at " and ", ',' and ';', trims, and emits
\* the tokens longer than one character unchanged and in order.
C10_VoiceTokens ==
  VoiceDone =>
    /\ input = VoiceScenario => Names(items) = <<w_apples, w_bananas, w_milk, w_cheese>>
    /\ input \in {QtyChicken, GroceryList} => Names(items) = <<input>>
    /\ ~HasSeparator(input) =>
         Names(items) = IF Len(Strip(input)) > 1 THEN <<Strip(input)>> ELSE <<>>
    /\ \A k \in 1..Len(items) :
         /\ Len(items[k].name) > 1
         /\ Strip(items[k].name) = items[k].name
         /\ ~HasSeparator(items[k].name)
         /\ Contains(items[k].name, input)
         /\ items[k].original = items[k].name
    /\ Len(items) <=
         1 + Cardinality({i \in 1..Len(input) : input[i] \in {",", ";"}})
           + Cardinality({i \in 1..(Len(input) - 4) :
                 SubSeq(input, i, i + 4) = <<" ", "a", "n", "d", " ">>})
C10_Witness ==
  /\ VoiceDone
  /\ input = VoiceScenario
  /\ Len(items) = 4

(***************************************************************************)
(* DocumentParser and the HTTP handlers that call it                       *)
(***************************************************************************)
MaxPages == 2
DOCX == "application/vnd.openxmlformats-officedocument.wordprocessingml.document"
\* allowed_types = list(ALLOWED_MIME_TYPES.keys()) + ["image/jpg"]
AllowedTypes ==
  {"text/plain", DOCX, "application/pdf", "image/jpeg", "image/png", "image/jpg"}
ImageTypes == {"image/jpeg", "image/png", "image/jpg"}
Endpoints == {"parse_document", "extract_text_only"}
Outcomes == {"text", "empty", "raise"}

\* what the libraries hand back: a line of text from a text file or a Word
\* document, the text of page i from each PDF engine, the OCR output
DocText == <<"2", " ", "A", "p", "p", "l", "e", "s", "\n">>
DigitChar(i) == <<"0", "1", "2", "3", "4", "5", "6", "7", "8", "9">>[i + 1]
PrimaryPageText(i) == <<"P", DigitChar(i)>>
SecondaryPageText(i) == <<"S", DigitChar(i)>>
OcrText == <<" ", "A", "p", "p", "l", "e", "s", "\n">>
OcrBlank == <<" ", "\n">>

\* An upload together with the behaviour of the environment on it:
\*   tooLarge, magicOk   the size check and validate_file_content
\*   writeOk             whether tmp.write(content) succeeds
\*   lib                 open()/docx.Document outcome for text and Word files
\*   primOpen, prim      pdfplumber.open and page.extract_text() per page
\*   secOpen, sec        fitz.open and page.get_text() per page
\*   imgOpen, ocr, ocrOut  Image.open, the OCR capability and its output
BaseReq ==
  [endpoint |-> "parse_document", ctype |-> "text/plain", tooLarge |-> FALSE,
   magicOk |-> TRUE, writeOk |-> TRUE, lib |-> "text",
   primOpen |-> "ok", prim |-> <<>>, secOpen |-> "ok", sec |-> <<>>,
   imgOpen |-> "ok", ocr |-> "available", ocrOut |-> "text"]
PdfRequests ==
  {[BaseReq EXCEPT !.ctype = "application/pdf", !.primOpen = po, !.prim = p,
                   !.secOpen = so, !.sec = q] :
     po \in {"ok", "raise"}, so \in {"ok", "raise"},
     p \in UNION {[1..n -> Outcomes] : n \in 0..MaxPages},
     q \in UNION {[1..n -> Outcomes] : n \in 0..MaxPages}}
ValidPdf(r) == Len(r.prim) = Len(r.sec)
LibRequests ==
  {[BaseReq EXCEPT !.ctype = c, !.lib = o] : c \in {"text/plain", DOCX}, o \in Outcomes}
ImageRequests ==
  {[BaseReq EXCEPT !.ctype = c, !.imgOpen = io, !.ocr = oc, !.ocrOut = oo] :
     c \in ImageTypes, io \in {"ok", "raise"},
     oc \in {"available", "absent", "throws"}, oo \in {"text", "blank"}}
RejectedRequests ==
  { [BaseReq EXCEPT !.ctype = "application/zip"],
    [BaseReq EXCEPT !.tooLarge = TRUE],
    [BaseReq EXCEPT !.magicOk = FALSE],
    [BaseReq EXCEPT !.writeOk = FALSE] }
Requests ==
  {[r EXCEPT !.endpoint = e] :
     r \in {x \in PdfRequests : ValidPdf(x)} \cup LibRequests \cup ImageRequests
           \cup RejectedRequests,
     e \in Endpoints}

NoExc == [type |-> "", msg |-> ""]
Returned(v) == [kind |-> "ok", value |-> v, exc |-> NoExc]
Raised(t, m) == [kind |-> "raise", value |-> <<>>, exc |-> [type |-> t, msg |-> m]]
NotParsed == [kind |-> "none", value |-> <<>>, exc |-> NoExc]

\* DocumentParser.parse_text
ParseText(r) ==
  CASE r.lib = "raise" -> Raised("UnicodeDecodeError", "invalid start byte")
    [] r.lib = "empty" -> Returned(<<>>)
    [] OTHER -> Returned(DocText)
\* DocumentParser.parse_docx: blank paragraphs are skipped, the others are
\* trimmed and joined
ParseDocx(r) ==
  CASE r.lib = "raise" -> Raised("PackageNotFoundError", "Package not found")
    [] r.lib = "empty" -> Returned(Join(<<>>, <<"\n">>))
    [] OTHER -> Returned(Join(<<Strip(DocText)>>, <<"\n">>))
\* DocumentParser.parse_image
ParseImage(r) ==
  IF r.imgOpen = "raise" \/ r.ocr # "available"
  THEN Raised("Exception", "OCR processing failed. Ensure Tesseract is installed.")
  ELSE Returned(Strip(IF r.ocrOut = "blank" THEN OcrBlank ELSE OcrText))

NoResp == [kind |-> "none", status |-> 0, detail |-> "", text |-> <<>>, items |-> <<>>]
HttpError(st, d) ==
  [kind |-> "HTTPException", status |-> st, detail |-> d, text |-> <<>>, items |-> <<>>]
InFlight(e) ==
  [kind |-> "Exception", status |-> 0, detail |-> e.msg, text |-> <<>>, items |-> <<>>]
Success(t, its) ==
  [kind |-> "response", status |-> 200, detail |-> "", text |-> t, items |-> its]
EmptyDetail(e) ==
  IF e = "parse_document" THEN "Could not extract text from document"
  ELSE "Could not extract text"
SanitizedDetail(e) ==
  IF e = "parse_document"
  THEN "An error occurred while processing the document. Please try again or contact support."
  ELSE "An error occurred while extracting text. Please try again or contact support."

ItemsIdle ==
  /\ input = <<>>
  /\ entry = "none"
  /\ items = <<>>
  /\ prev = <<>>
  /\ ipc = "idle"

Init ==
  /\ req \in Requests
  /\ hpc = "start"
  /\ ppc = "idle"
  /\ text = <<>>
  /\ page = 0
  /\ calls = [primary |-> 0, secondary |-> 0]
  /\ primaryRaised = FALSE
  /\ primaryCollected = 0
  /\ parsed = NotParsed
  /\ resp = NoResp
  /\ tmpFile = "none"
  /\ tmpPath = "None"
  /\ docOpen = FALSE
  /\ extracted = FALSE
  /\ ItemsIdle
  /\ ExtraIdle

pdfvars == <<ppc, text, page, calls, primaryRaised, primaryCollected, docOpen>>

\* the content-type, size and magic-byte checks; each failure raises an
\* HTTPException before any temporary file exists
Validate ==
  /\ hpc = "start"
  /\ IF req.ctype \notin AllowedTypes
     THEN resp' = HttpError(400, "Unsupported file type") /\ hpc' = "done"
     ELSE IF req.tooLarge
     THEN resp' = HttpError(413, "File size exceeds maximum limit of 10MB") /\ hpc' = "done"
     ELSE IF ~req.magicOk
     THEN resp' = HttpError(400, "File content does not match declared type") /\ hpc' = "done"
     ELSE resp' = resp /\ hpc' = "validated"
  /\ UNCHANGED <<req, parsed, tmpFile, tmpPath, extracted>>
  /\ UNCHANGED pdfvars
  /\ UNCHANGED ivars
  /\ UNCHANGED xvars

\* tempfile.NamedTemporaryFile(delete=False, ...): the file now exists
CreateTmp ==
  /\ hpc = "validated"
  /\ tmpFile' = "exists"
  /\ hpc' = "tmp_created"
  /\ UNCHANGED <<req, parsed, resp, tmpPath, extracted>>
  /\ UNCHANGED pdfvars
  /\ UNCHANGED ivars
  /\ UNCHANGED xvars

\* tmp.write(content); tmp_path = tmp.name
WriteTmp ==
  /\ hpc = "tmp_created"
  /\ IF req.writeOk
     THEN tmpPath' = "set" /\ hpc' = "dispatch" /\ resp' = resp
     ELSE tmpPath' = tmpPath /\ hpc' = "finally"
          /\ resp' = InFlight([type |-> "OSError", msg |-> "No space left on device"])
  /\ UNCHANGED <<req, parsed, tmpFile, extracted>>
  /\ UNCHANGED pdfvars
  /\ UNCHANGED ivars
  /\ UNCHANGED xvars

\* text = document_parser.parse_text(tmp_path)
DispatchText ==
  /\ hpc = "dispatch" /\ req.ctype = "text/plain"
  /\ parsed' = ParseText(req)
  /\ hpc' = "parsed"
  /\ UNCHANGED <<req, resp, tmpFile, tmpPath, extracted>>
  /\ UNCHANGED pdfvars
  /\ UNCHANGED ivars
  /\ UNCHANGED xvars
\* text = document_parser.parse_docx(tmp_path)
DispatchDocx ==
  /\ hpc = "dispatch" /\ req.ctype = DOCX
  /\ parsed' = ParseDocx(req)
  /\ hpc' = "parsed"
  /\ UNCHANGED <<req, resp, tmpFile, tmpPath, extracted>>
  /\ UNCHANGED pdfvars
  /\ UNCHANGED ivars
  /\ UNCHANGED xvars
\* text = document_parser.parse_image(tmp_path)
DispatchImage ==
  /\ hpc = "dispatch" /\ req.ctype \in ImageTypes
  /\ parsed' = ParseImage(req)
  /\ hpc' = "parsed"
  /\ UNCHANGED <<req, resp, tmpFile, tmpPath, extracted>>
  /\ UNCHANGED pdfvars
  /\ UNCHANGED ivars
  /\ UNCHANGED xvars
\* text = document_parser.parse_pdf(tmp_path): entry, `text = []`
DispatchPdf ==
  /\ hpc = "dispatch" /\ req.ctype = "application/pdf"
  /\ hpc' = "parsing"
  /\ ppc' = "primary_open"
  /\ text' = <<>>
  /\ UNCHANGED <<req, parsed, resp, tmpFile, tmpPath, extracted, page, calls,
                 primaryRaised, primaryCollected, docOpen>>
  /\ UNCHANGED ivars
  /\ UNCHANGED xvars

hrest == <<req, resp, tmpFile, tmpPath, extracted>>

\* parse_pdf returns v to the handler
PdfReturn(v) ==
  /\ parsed' = Returned(v)
  /\ ppc' = "returned"
  /\ hpc' = "parsed"

\* `with pdfplumber.open(file_path) as pdf`
PrimaryOpen ==
  /\ ppc = "primary_open"
  /\ calls' = [calls EXCEPT !.primary = @ + 1]
  /\ IF req.primOpen = "raise"
     THEN primaryRaised' = TRUE /\ ppc' = "secondary_open" /\ page' = page
     ELSE primaryRaised' = primaryRaised /\ ppc' = "primary_pages" /\ page' = 1
  /\ UNCHANGED <<text, primaryCollected, docOpen, parsed, hpc>>
  /\ UNCHANGED hrest
  /\ UNCHANGED ivars
  /\ UNCHANGED xvars

\* one iteration of `for page in pdf.pages`: extract_text(), append if truthy;
\* an exception leaves the with block and is caught by `except Exception`
PrimaryPage ==
  /\ ppc = "primary_pages"
  /\ page <= Len(req.prim)
  /\ CASE req.prim[page] = "text" ->
            /\ text' = Append(text, PrimaryPageText(page))
            /\ primaryCollected' = primaryCollected + 1
            /\ page' = page + 1
            /\ UNCHANGED <<ppc, primaryRaised>>
       [] req.prim[page] = "empty" ->
            /\ page' = page + 1
            /\ UNCHANGED <<text, primaryCollected, ppc, primaryRaised>>
       [] OTHER ->
            /\ primaryRaised' = TRUE
            /\ ppc' = "secondary_open"
            /\ UNCHANGED <<text, primaryCollected, page>>
  /\ UNCHANGED <<calls, docOpen, parsed, hpc>>
  /\ UNCHANGED hrest
  /\ UNCHANGED ivars
  /\ UNCHANGED xvars

\* (mutant) the pdfplumber block never returns: `if text: return` is missing
PrimaryDoneNoReturn ==
  /\ ppc = "primary_pages"
  /\ page > Len(req.prim)
  /\ ppc' = "secondary_open"
  /\ UNCHANGED <<parsed, hpc, text, page, calls, primaryRaised, primaryCollected, docOpen>>
  /\ UNCHANGED hrest
  /\ UNCHANGED ivars
  /\ UNCHANGED xvars
\* the end of the with block: `if text: return '\n'.join(text)`
PrimaryDone ==
  /\ ppc = "primary_pages"
  /\ page > Len(req.prim)
  /\ IF text # <<>>
     THEN PdfReturn(Join(text, <<"\n">>))
     ELSE ppc' = "secondary_open" /\ UNCHANGED <<parsed, hpc>>
  /\ UNCHANGED <<text, page, calls, primaryRaised, primaryCollected, docOpen>>
  /\ UNCHANGED hrest
  /\ UNCHANGED ivars
  /\ UNCHANGED xvars

\* `doc = fitz.open(file_path)`; failure is caught and "" returned
SecondaryOpen ==
  /\ ppc = "secondary_open"
  /\ calls' = [calls EXCEPT !.secondary = @ + 1]
  /\ IF req.secOpen = "raise"
     THEN PdfReturn(<<>>) /\ UNCHANGED <<page, docOpen>>
     ELSE /\ ppc' = "secondary_pages"
          /\ page' = 1
          /\ docOpen' = TRUE
          /\ UNCHANGED <<parsed, hpc>>
  /\ UNCHANGED <<text, primaryRaised, primaryCollected>>
  /\ UNCHANGED hrest
  /\ UNCHANGED ivars
  /\ UNCHANGED xvars

\* one iteration of `for page in doc: text.append(page.get_text())`;
\* an exception is caught and "" returned (doc.close() is skipped)
SecondaryPage ==
  /\ ppc = "secondary_pages"
  /\ page <= Len(req.sec)
  /\ CASE req.sec[page] = "text" ->
            /\ text' = Append(text, SecondaryPageText(page))
            /\ page' = page + 1
            /\ UNCHANGED <<ppc, parsed, hpc>>
       [] req.sec[page] = "empty" ->
            /\ text' = Append(text, <<>>)
            /\ page' = page + 1
            /\ UNCHANGED <<ppc, parsed, hpc>>
       [] OTHER ->
            /\ PdfReturn(<<>>)
            /\ UNCHANGED <<text, page>>
  /\ UNCHANGED <<calls, primaryRaised, primaryCollected, docOpen>>
  /\ UNCHANGED hrest
  /\ UNCHANGED ivars
  /\ UNCHANGED xvars

\* `doc.close(); return '\n'.join(text)`
SecondaryDone ==
  /\ ppc = "secondary_pages"
  /\ page > Len(req.sec)
  /\ docOpen' = FALSE
  /\ PdfReturn(Join(text, <<"\n">>))
  /\ UNCHANGED <<text, page, calls, primaryRaised, primaryCollected>>
  /\ UNCHANGED hrest
  /\ UNCHANGED ivars
  /\ UNCHANGED xvars

\* after the parser call: an exception propagates to `finally`; `if not text`
\* raises HTTPException(400); otherwise parse_document extracts the items
\* and both handlers build their success response
CheckText ==
  /\ hpc = "parsed"
  /\ hpc' = "finally"
  /\ CASE parsed.kind = "raise" ->
            resp' = InFlight(parsed.exc) /\ extracted' = extracted
       [] parsed.kind = "ok" /\ parsed.value = <<>> ->
            resp' = HttpError(400, EmptyDetail(req.endpoint)) /\ extracted' = extracted
       [] OTHER ->
            IF req.endpoint = "parse_document"
            THEN /\ extracted' = TRUE
                 /\ resp' = Success(parsed.value, ExtractItems(parsed.value))
            ELSE /\ extracted' = extracted
                 /\ resp' = Success(parsed.value, <<>>)
  /\ UNCHANGED <<req, parsed, tmpFile, tmpPath>>
  /\ UNCHANGED pdfvars
  /\ UNCHANGED ivars
  /\ UNCHANGED xvars

\* `finally: if tmp_path and os.path.exists(tmp_path): os.unlink(tmp_path)`,
\* then `except HTTPException: raise` / `except Exception: raise
\* HTTPException(500, <sanitized detail>)`
Finally ==
  /\ hpc = "finally"
  /\ tmpFile' = IF tmpPath = "set" /\ tmpFile = "exists" THEN "deleted" ELSE tmpFile
  /\ resp' = IF resp.kind = "Exception"
             THEN HttpError(500, SanitizedDetail(req.endpoint))
             ELSE resp
  /\ hpc' = "done"
  /\ UNCHANGED <<req, parsed, tmpPath, extracted>>
  /\ UNCHANGED pdfvars
  /\ UNCHANGED ivars
  /\ UNCHANGED xvars

Next ==
  \/ Validate
  \/ CreateTmp
  \/ WriteTmp
  \/ DispatchText
  \/ DispatchDocx
  \/ DispatchImage
  \/ DispatchPdf
  \/ PrimaryOpen
  \/ PrimaryPage
  \/ PrimaryDone
  \/ SecondaryOpen
  \/ SecondaryPage
  \/ SecondaryDone
  \/ CheckText
  \/ Finally

Spec == Init /\ [][Next]_vars

(***************************************************************************)
(* Claims about DocumentParser and the handlers (checked under Spec)       *)
(***************************************************************************)

\* C1: in every call of parse_pdf pdfplumber is opened first and exactly
\* once, PyMuPDF at most once and only if the pdfplumber block raised or
\* collected no page text; when pdfplumber collected a page text without
\* raising, PyMuPDF is never opened.
C1_EngineOrder ==
  /\ calls.primary <= 1
  /\ calls.secondary <= 1
  /\ ppc \in {"primary_pages", "secondary_open", "secondary_pages", "returned"}
       => calls.primary = 1
  /\ calls.secondary = 1 =>
       /\ calls.primary = 1
       /\ primaryRaised \/ primaryCollected = 0
  /\ ppc \in {"secondary_open", "secondary_pages"} =>
       primaryRaised \/ primaryCollected = 0
  /\ (ppc = "returned" /\ ~primaryRaised /\ primaryCollected >= 1) =>
       calls.secondary = 0
C1_Witness ==
  /\ ppc = "returned"
  /\ calls = [primary |-> 1, secondary |-> 0]
  /\ primaryCollected >= 1
  /\ parsed.value # <<>>

\* the secondary engine reads every page without raising
SecondarySucceeds ==
  /\ req.secOpen = "ok"
  /\ \A i \in 1..Len(req.sec) : req.sec[i] # "raise"
\* what page.get_text() returns for each page, in page order
SecondaryTexts ==
  [i \in 1..Len(req.sec) |->
     IF req.sec[i] = "text" THEN SecondaryPageText(i) ELSE <<>>]

\* C2: when the pdfplumber block raises, parse_pdf returns exactly the
\* PyMuPDF page texts joined by newlines if PyMuPDF succeeds, and the empty
\* string if it raises too; no exception escapes.
C2_SecondaryOutputOnly ==
  (ppc = "returned" /\ primaryRaised) =>
     /\ parsed.kind = "ok"
     /\ parsed.value =
          IF SecondarySucceeds THEN Join(SecondaryTexts, <<"\n">>) ELSE <<>>

\* requests whose extraction fails for a reason other than the OCR capability
GenericFailure(r) ==
  \/ r.ctype \in {"text/plain", DOCX} /\ r.lib = "raise"
  \/ r.ctype \in ImageTypes /\ r.imgOpen = "raise" /\ r.ocr = "available"
\* requests for an image on which OCR runs and finds no text
BlankImage(r) ==
  r.ctype \in ImageTypes /\ r.imgOpen = "ok" /\ r.ocr = "available" /\ r.ocrOut = "blank"
\* what DocumentParser hands back for a request that is not a PDF
ParseOf(r) ==
  CASE r.ctype = "text/plain" -> ParseText(r)
    [] r.ctype = DOCX -> ParseDocx(r)
    [] OTHER -> ParseImage(r)
\* the handler's answer for a parser outcome
AnswerOf(r) ==
  LET p == ParseOf(r)
  IN CASE p.kind = "raise" -> HttpError(500, SanitizedDetail(r.endpoint))
       [] p.value = <<>> -> HttpError(400, EmptyDetail(r.endpoint))
       [] OTHER -> Success(p.value, <<>>)

\* C3: when the OCR capability is absent or throws, the caller of
\* parse_image gets a failure, never an empty string, that is distinct from
\* the outcome for a blank image and from a generic extraction failure, and
\* the HTTP answers for OCR-unavailable and blank image differ.
C3_OcrUnavailableDistinct ==
  (hpc = "done" /\ req.ctype \in ImageTypes /\ req.imgOpen = "ok"
     /\ req.ocr \in {"absent", "throws"}) =>
     /\ parsed.kind = "raise"
     /\ \A r \in Requests :
          (BlankImage(r) /\ r.endpoint = req.endpoint) =>
             /\ ParseOf(r) # parsed
             /\ AnswerOf(r).status # resp.status
     /\ \A r \in Requests :
          (GenericFailure(r) /\ r.endpoint = req.endpoint) =>
             ParseOf(r).exc # parsed.exc

(***************************************************************************)
(* Further claims about ItemExtractor (checked under SpecItems)            *)
(***************************************************************************)

\* C14: quantity stripping removes a unit only when it is a whole unit word:
\* "<integer> <unit> <rest>" yields exactly <rest> for every unit word of the
\* vocabulary in any letter case, and "<integer> <word>" yields the whole
\* <word> when <word> merely begins with the letters of a unit.
C14_WholeUnitWords ==
  ItemsDone =>
    /\ \A u \in UnitWords :
         input \in {QtyLine(u, w_Chicken), QtyLine(Upper(u), w_Chicken)} =>
            Names(items) = <<w_Chicken>>
    /\ \A w \in NonUnitWords :
         input = <<"3", " ">> \o w => Names(items) = <<w>>

\* C15: every keyword of the taxonomy is tagged with the category it is
\* declared under.
C15_KeywordsReachable ==
  TagDone =>
    \A c \in 1..Len(CATEGORIES) :
      \A k \in 1..Len(CATEGORIES[c].keywords) :
        input = CATEGORIES[c].keywords[k] => items[1].category = CATEGORIES[c].name

(***************************************************************************)
(* Further claims about DocumentParser and the handlers (checked under     *)
(* Spec)                                                                   *)
(***************************************************************************)

\* C12: no document handle opened by an extraction function is still open
\* when it returns, on any path: in particular the fitz document is closed
\* when a page raises and parse_pdf returns the empty string.
C12_NoOpenHandle ==
  (ppc = "returned" \/ hpc = "done") => ~docOpen

\* C16: when parse_document or extract_text_only has returned or raised, a
\* temporary file that was created is deleted, on every path (success, 400
\* for empty text, 500 for an extraction exception, a failed write of the
\* upload); and item extraction is never invoked on empty text.
C16_TmpFileDeleted ==
  /\ hpc = "done" => tmpFile # "exists"
  /\ extracted => (parsed.kind = "ok" /\ parsed.value # <<>>)

(***************************************************************************)
(* DocumentParser.parse_text on the bytes of a file                        *)
(*                                                                         *)
(* A byte is a number 0..255 and a decoded str a sequence of code points.  *)
(* The files hold the bytes of TextBytes, so only the one- and two-byte    *)
(* forms of UTF-8 occur.                                                   *)
(***************************************************************************)
MaxBytes == 3
\* "A", CR, LF, the two bytes of U+00E9, and a byte no UTF-8 text contains
TextBytes == {65, 13, 10, 195, 169, 255}
RECURSIVE ByteStrings(_)
ByteStrings(n) ==
  IF n = 0 THEN {<<>>}
  ELSE LET p == ByteStrings(n - 1) IN p \cup {b \o <<x>> : b \in p, x \in TextBytes}

\* the utf-8 codec's decoder (strict errors): None on an invalid sequence
RECURSIVE Utf8Decode(_)
Utf8Decode(bs) ==
  IF bs = <<>> THEN Some(<<>>)
  ELSE IF bs[1] < 128
  THEN LET r == Utf8Decode(Tail(bs))
       IN IF r = None THEN None ELSE Some(<<bs[1]>> \o r[1])
  ELSE IF bs[1] \in 194..223 /\ Len(bs) >= 2 /\ bs[2] \in 128..191
  THEN LET r == Utf8Decode(Drop(bs, 2))
       IN IF r = None THEN None
          ELSE Some(<<(bs[1] - 192) * 64 + (bs[2] - 128)>> \o r[1])
  ELSE None
\* text mode with newline=None (the default of open()): on reading, "\r\n"
\* and "\r" are translated to "\n"
RECURSIVE UniversalNewlines(_)
UniversalNewlines(cps) ==
  IF cps = <<>> THEN <<>>
  ELSE IF cps[1] = 13
  THEN <<10>> \o UniversalNewlines(
                   IF Len(cps) >= 2 /\ cps[2] = 10 THEN Drop(cps, 2) ELSE Tail(cps))
  ELSE <<cps[1]>> \o UniversalNewlines(Tail(cps))
\* DocumentParser.parse_text: open(file_path, 'r', encoding='utf-8').read()
ReadTextFile(bs) ==
  LET d == Utf8Decode(bs)
  IN IF d = None THEN Raised("UnicodeDecodeError", "invalid start byte")
     ELSE Returned(UniversalNewlines(d[1]))
\* str.encode('utf-8') for code points below U+0800
RECURSIVE Utf8Encode(_)
Utf8Encode(cps) ==
  IF cps = <<>> THEN <<>>
  ELSE (IF cps[1] < 128 THEN <<cps[1]>>
        ELSE <<192 + (cps[1] \div 64), 128 + (cps[1] % 64)>>)
       \o Utf8Encode(Tail(cps))

InitText ==
  /\ content \in ByteStrings(MaxBytes)
  /\ cc = <<>>
  /\ heap = <<>>
  /\ taxonomy = CATEGORIES
  /\ DocIdle
  /\ ItemsIdle

\* parsed = document_parser.parse_text(<file holding content>)
CallParseText ==
  /\ parsed.kind = "none"
  /\ parsed' = ReadTextFile(content)
  /\ UNCHANGED <<req, hpc, ppc, text, page, calls, primaryRaised, primaryCollected,
                 resp, tmpFile, tmpPath, docOpen, extracted>>
  /\ UNCHANGED ivars
  /\ UNCHANGED xvars

NextText == CallParseText

SpecText == InitText /\ [][NextText]_vars

\* C11: for every non-empty valid UTF-8 file parse_text returns the text
\* verbatim: encoding the result as UTF-8 gives back exactly the file's
\* bytes, also when the file has CR or CRLF line endings.
C11_RoundTrip ==
  (parsed.kind # "none" /\ content # <<>> /\ Utf8Decode(content) # None) =>
     /\ parsed.kind = "ok"
     /\ Utf8Encode(parsed.value) = content

(***************************************************************************)
(* Concurrent calls on the module-level document_parser / item_extractor   *)
(*                                                                         *)
(* Every call runs parse_pdf or extract_items step by step (one page, one  *)
(* line per step); steps of different calls interleave freely.             *)
(***************************************************************************)
Calls == {1, 2}

\* DocumentParser.parse_pdf as a function of the engines' behaviour
ParsePdf(r) ==
  LET raises == {i \in 1..Len(r.prim) : r.prim[i] = "raise"}
      praised == r.primOpen = "raise" \/ raises # {}
      stop == IF r.primOpen = "raise" THEN 1
              ELSE IF raises # {} THEN Min(raises) ELSE Len(r.prim) + 1
      kept == SelectSeq([i \in 1..(stop - 1) |-> i], LAMBDA i : r.prim[i] = "text")
      ptexts == [k \in 1..Len(kept) |-> PrimaryPageText(kept[k])]
      sok == r.secOpen = "ok" /\ \A i \in 1..Len(r.sec) : r.sec[i] # "raise"
      stexts == [i \in 1..Len(r.sec) |->
                   IF r.sec[i] = "text" THEN SecondaryPageText(i) ELSE <<>>]
  IN IF ~praised /\ ptexts # <<>> THEN Join(ptexts, <<"\n">>)
     ELSE IF sok THEN Join(ptexts \o stexts, <<"\n">>)
     ELSE <<>>

\* the arguments of the concurrent calls: PDFs of one page with every
\* behaviour of the two engines, three PDFs of two pages, three texts
TwoPagePdfs ==
  { [BaseReq EXCEPT !.ctype = "application/pdf", !.prim = <<"text", "text">>,
                    !.sec = <<"text", "text">>],
    [BaseReq EXCEPT !.ctype = "application/pdf", !.prim = <<"text", "raise">>,
                    !.sec = <<"text", "empty">>],
    [BaseReq EXCEPT !.ctype = "application/pdf", !.prim = <<"empty", "empty">>,
                    !.sec = <<"text", "raise">>] }
ConcArgs ==
  {[kind |-> "parse_pdf", arg |-> r] :
     r \in {x \in PdfRequests : ValidPdf(x) /\ Len(x.prim) = 1} \cup TwoPagePdfs}
  \cup {[kind |-> "extract_items", arg |-> t] :
           t \in {ScenarioText, CrLfText, GroceryList}}

\* where call c keeps the list it builds: a local variable of its own frame
\* (`text = []`, `items = []`)
\* (mutant) the list is an attribute of the shared instance
ListOfShared(c) == 1
ListOf(c) == c

InitConc ==
  /\ cc \in [Calls -> {[kind |-> a.kind, arg |-> a.arg, pc |-> "start", i |-> 0, out |-> <<>>] :
                         a \in ConcArgs}]
  /\ heap = [c \in Calls |-> <<>>]
  /\ taxonomy = CATEGORIES
  /\ content = <<>>
  /\ DocIdle
  /\ ItemsIdle

ConcRest == <<input, entry, items, prev, ipc, req, hpc, ppc, text, page, calls,
              primaryRaised, primaryCollected, parsed, resp, tmpFile, tmpPath,
              docOpen, extracted, content, taxonomy>>
MyList(c) == heap[ListOf(c)]
Goto(c, pc, i) == cc' = [cc EXCEPT ![c].pc = pc, ![c].i = i]
ConcReturn(c, v) == cc' = [cc EXCEPT ![c].pc = "returned", ![c].out = v]

\* `text = []` / `items = []; lines = text.split('\n')`
ConcStart(c) ==
  /\ cc[c].pc = "start"
  /\ heap' = [heap EXCEPT ![ListOf(c)] = <<>>]
  /\ Goto(c, IF cc[c].kind = "parse_pdf" THEN "primary_open" ELSE "lines", 1)
  /\ UNCHANGED ConcRest

ConcPrimaryOpen(c) ==
  /\ cc[c].pc = "primary_open"
  /\ Goto(c, IF cc[c].arg.primOpen = "raise" THEN "secondary_open" ELSE "primary_pages", 1)
  /\ UNCHANGED heap
  /\ UNCHANGED ConcRest

ConcPrimaryPage(c) ==
  /\ cc[c].pc = "primary_pages"
  /\ cc[c].i <= Len(cc[c].arg.prim)
  /\ CASE cc[c].arg.prim[cc[c].i] = "text" ->
            /\ heap' = [heap EXCEPT ![ListOf(c)] = Append(MyList(c), PrimaryPageText(cc[c].i))]
            /\ Goto(c, "primary_pages", cc[c].i + 1)
       [] cc[c].arg.prim[cc[c].i] = "empty" ->
            /\ UNCHANGED heap
            /\ Goto(c, "primary_pages", cc[c].i + 1)
       [] OTHER ->
            /\ UNCHANGED heap
            /\ Goto(c, "secondary_open", cc[c].i)
  /\ UNCHANGED ConcRest

ConcPrimaryDone(c) ==
  /\ cc[c].pc = "primary_pages"
  /\ cc[c].i > Len(cc[c].arg.prim)
  /\ IF MyList(c) # <<>>
     THEN ConcReturn(c, Join(MyList(c), <<"\n">>))
     ELSE Goto(c, "secondary_open", cc[c].i)
  /\ UNCHANGED heap
  /\ UNCHANGED ConcRest

ConcSecondaryOpen(c) ==
  /\ cc[c].pc = "secondary_open"
  /\ IF cc[c].arg.secOpen = "raise"
     THEN ConcReturn(c, <<>>)
     ELSE Goto(c, "secondary_pages", 1)
  /\ UNCHANGED heap
  /\ UNCHANGED ConcRest

ConcSecondaryPage(c) ==
  /\ cc[c].pc = "secondary_pages"
  /\ cc[c].i <= Len(cc[c].arg.sec)
  /\ CASE cc[c].arg.sec[cc[c].i] = "text" ->
            /\ heap' = [heap EXCEPT ![ListOf(c)] = Append(MyList(c), SecondaryPageText(cc[c].i))]
            /\ Goto(c, "secondary_pages", cc[c].i + 1)
       [] cc[c].arg.sec[cc[c].i] = "empty" ->
            /\ heap' = [heap EXCEPT ![ListOf(c)] = Append(MyList(c), <<>>)]
            /\ Goto(c, "secondary_pages", cc[c].i + 1)
       [] OTHER ->
            /\ UNCHANGED heap
            /\ ConcReturn(c, <<>>)
  /\ UNCHANGED ConcRest

ConcSecondaryDone(c) ==
  /\ cc[c].pc = "secondary_pages"
  /\ cc[c].i > Len(cc[c].arg.sec)
  /\ ConcReturn(c, Join(MyList(c), <<"\n">>))
  /\ UNCHANGED heap
  /\ UNCHANGED ConcRest

\* one iteration of `for line in lines` of extract_items
ConcItemsLine(c) ==
  /\ cc[c].pc = "lines"
  /\ cc[c].i <= Len(Split(cc[c].arg, {"\n"}))
  /\ heap' = [heap EXCEPT ![ListOf(c)] =
                 ExtractLoop(<<Split(cc[c].arg, {"\n"})[cc[c].i]>>, 1, MyList(c))]
  /\ Goto(c, "lines", cc[c].i + 1)
  /\ UNCHANGED ConcRest

\* `return items`
ConcItemsReturn(c) ==
  /\ cc[c].pc = "lines"
  /\ cc[c].i > Len(Split(cc[c].arg, {"\n"}))
  /\ ConcReturn(c, MyList(c))
  /\ UNCHANGED heap
  /\ UNCHANGED ConcRest

NextConc ==
  \E c \in Calls :
    \/ ConcStart(c)
    \/ ConcPrimaryOpen(c)
    \/ ConcPrimaryPage(c)
    \/ ConcPrimaryDone(c)
    \/ ConcSecondaryOpen(c)
    \/ ConcSecondaryPage(c)
    \/ ConcSecondaryDone(c)
    \/ ConcItemsLine(c)
    \/ ConcItemsReturn(c)

SpecConc == InitConc /\ [][NextConc]_vars

\* what call c returns when it runs alone
Solo(c) ==
  IF cc[c].kind = "parse_pdf" THEN ParsePdf(cc[c].arg) ELSE ExtractItems(cc[c].arg)

\* C13: the pipeline holds no shared mutable state: under every interleaving
\* of concurrent calls each call returns what it returns when run alone, and
\* CATEGORIES is never modified.
C13_CallsIsolated ==
  /\ taxonomy = CATEGORIES
  /\ \A c \in DOMAIN cc : cc[c].pc = "returned" => cc[c].out = Solo(c)
\* call 1 has returned a non-empty result while call 2 is in the middle of
\* its loop with a partly built list
C13_Witness ==
  /\ DOMAIN cc = Calls
  /\ cc[1].pc = "returned" /\ cc[1].out # <<>>
  /\ cc[2].pc \in {"primary_pages", "secondary_pages", "lines"}
  /\ heap[2] # <<>>
  /\ cc[2].i <= 2

====
